---------------------------- MODULE Spec2Model ----------------------------
(***************************************************************************)
(* Model of ass1-5339.py: the fuel-price download / clean / merge / save   *)
(* script.  Text is a sequence of one-character strings, a cell is a       *)
(* tagged record, a row is a record over Columns (a column a table does    *)
(* not have holds Null in every row, as after pd.concat), and a table is   *)
(* [cols, rows].                                                           *)
(***************************************************************************)
EXTENDS Integers, Sequences, FiniteSets, TLC

VARIABLES
    pc,           \* position of the script
    page,         \* what TARGET_URL serves: an error, or a page with its links
    li,           \* index of the link the download loop is at
    fetched,      \* the response to each file request, by index of the link
    all_data,     \* the list of tables
    i,            \* index of the main loop
    combined_df,  \* the merged table inside save_to_csv
    indexer,      \* the row order sort_values chose (positions before the sort)
    pre_sort,     \* combined_df as it was before sort_values
    pre_audit,    \* combined_df as it was before the three checks
    fs,           \* the file at OUTPUT_PATH
    fs0,          \* the file at OUTPUT_PATH when the run started
    log,          \* the stages executed so far, in order
    console,      \* the last summary line printed
    input,        \* argument of the function under test (function specifications)
    output        \* its result

vars == <<pc, page, li, fetched, all_data, i, combined_df, indexer, pre_sort,
          pre_audit, fs, fs0, log, console, input, output>>

runVars == <<pc, page, li, fetched, all_data, i, combined_df, indexer, pre_sort,
             pre_audit, fs, fs0, log, console>>

-----------------------------------------------------------------------------
(* Characters and text *)

LF == "\n"
ArabicTwo == "u0662"     \* ARABIC-INDIC DIGIT TWO, one character
ArabicZero == "u0660"    \* ARABIC-INDIC DIGIT ZERO, one character

UpperAlpha == <<"A","B","C","D","E","F","G","H","I","J","K","L","M",
                "N","O","P","Q","R","S","T","U","V","W","X","Y","Z">>
LowerAlpha == <<"a","b","c","d","e","f","g","h","i","j","k","l","m",
                "n","o","p","q","r","s","t","u","v","w","x","y","z">>
AsciiDigits == <<"0","1","2","3","4","5","6","7","8","9">>

Range(f) == {f[x] : x \in DOMAIN f}

IsUpper(c) == c \in Range(UpperAlpha)
IsLower(c) == c \in Range(LowerAlpha)
IsLetter(c) == IsUpper(c) \/ IsLower(c)
IsAsciiDigit(c) == c \in Range(AsciiDigits)
\* \d of a str pattern: any Unicode decimal digit
IsDigit(c) == IsAsciiDigit(c) \/ c \in {ArabicTwo, ArabicZero}
\* \s
IsSpace(c) == c \in {" ", LF}
\* \w
IsWord(c) == IsLetter(c) \/ IsDigit(c) \/ c = "_"

Lower(c) == IF IsUpper(c)
            THEN LowerAlpha[CHOOSE k \in 1..26 : UpperAlpha[k] = c]
            ELSE c
Upper(c) == IF IsLower(c)
            THEN UpperAlpha[CHOOSE k \in 1..26 : LowerAlpha[k] = c]
            ELSE c

\* str.lower()
LowerStr(s) == [k \in 1..Len(s) |-> Lower(s[k])]

\* str.title()
Title(s) == [k \in 1..Len(s) |->
               IF k = 1 \/ ~IsLetter(s[k-1]) THEN Upper(s[k]) ELSE Lower(s[k])]

\* the text left of position k (exclusive)
Before(s, k) == SubSeq(s, 1, k - 1)

\* every character from position k on is whitespace
OnlySpaceFrom(s, k) == \A j \in k..Len(s) : IsSpace(s[j])

\* first position of the whitespace run that ends at position k
WsRunStart(s, k) ==
    CHOOSE m \in 1..(k+1) :
        /\ \A j \in m..k : IsSpace(s[j])
        /\ (m = 1 \/ ~IsSpace(s[m-1]))

\* str.rstrip(), str.lstrip(), str.strip()
RStrip(s) == IF Len(s) = 0 THEN s ELSE Before(s, WsRunStart(s, Len(s)))
LStrip(s) ==
    LET first == {k \in 1..Len(s) : ~IsSpace(s[k])}
    IN  IF first = {} THEN <<>>
        ELSE SubSeq(s, CHOOSE k \in first : \A j \in first : k <= j, Len(s))
Strip(s) == LStrip(RStrip(s))

\* one pattern character against one text character under re.IGNORECASE;
\* an unescaped "." matches anything but a newline
PatCharMatch(p, c) == IF p = "." THEN c # LF ELSE Lower(p) = Lower(c)
\* an escaped pattern character under re.IGNORECASE
LitCharMatch(p, c) == Lower(p) = Lower(c)

\* pat matches s at position k
PatAt(s, k, pat) ==
    /\ k >= 1
    /\ k + Len(pat) - 1 <= Len(s)
    /\ \A j \in 1..Len(pat) : PatCharMatch(pat[j], s[k + j - 1])
LitAt(s, k, pat) ==
    /\ k >= 1
    /\ k + Len(pat) - 1 <= Len(s)
    /\ \A j \in 1..Len(pat) : LitCharMatch(pat[j], s[k + j - 1])

Min(S) == CHOOSE x \in S : \A y \in S : x <= y
Max(S) == CHOOSE x \in S : \A y \in S : x >= y

-----------------------------------------------------------------------------
(* Cells *)

Null == [k |-> "null"]
StrV(s) == [k |-> "str", s |-> s]
IntV(n) == [k |-> "int", n |-> n]
FloatV(n) == [k |-> "float", n |-> n]          \* an integral float, n.0
NumV(m, e) == [k |-> "num", m |-> m, e |-> e]  \* the number m / 10^e, m not a multiple of 10 unless e = 0
DateTime(d, t) == [k |-> "datetime", day |-> d, tod |-> t]
Date(d) == [k |-> "date", day |-> d]

IsNull(c) == c.k = "null"
IsStr(c) == c.k = "str"

\* decimal text of a natural number
RECURSIVE DigitsOf(_)
DigitsOf(n) == IF n < 10 THEN <<AsciiDigits[n + 1]>>
               ELSE DigitsOf(n \div 10) \o <<AsciiDigits[(n % 10) + 1]>>

DigitVal(c) == IF IsAsciiDigit(c)
               THEN (CHOOSE k \in 1..10 : AsciiDigits[k] = c) - 1
               ELSE IF c = ArabicTwo THEN 2 ELSE 0

\* int() of a text of decimal digits
RECURSIVE IntOfDigits(_)
IntOfDigits(s) == IF Len(s) = 0 THEN 0
                  ELSE 10 * IntOfDigits(Before(s, Len(s))) + DigitVal(s[Len(s)])

\* str(value) of a cell
StrOf(c) ==
    CASE c.k = "null" -> <<"n","a","n">>
      [] c.k = "str" -> c.s
      [] c.k = "int" -> DigitsOf(c.n)
      [] c.k = "float" -> DigitsOf(c.n) \o <<".","0">>

-----------------------------------------------------------------------------
(* Tables *)

Columns == {"PriceUpdatedDate", "Price", "Postcode", "Suburb", "Address", "State"}

Table(cols, rows) == [cols |-> cols, rows |-> rows]

\* df[col] = cells: the table with column col replaced, row r getting cells[r]
SetColumn(df, col, cells) ==
    [df EXCEPT !.rows = [r \in 1..Len(df.rows) |->
                            [df.rows[r] EXCEPT ![col] = cells[r]]]]

-----------------------------------------------------------------------------
(* clean_address and the text normalisers *)

\* re.sub(r'\s+' + str(Postcode) + r'\s*$', '', Address, flags=re.IGNORECASE)
StripPostcode(addr, pcText) ==
    LET cands == {k \in 2..(Len(addr) + 1) :
                     /\ IsSpace(addr[k-1])
                     /\ PatAt(addr, k, pcText)
                     /\ OnlySpaceFrom(addr, k + Len(pcText))}
    IN  IF cands = {} THEN addr
        ELSE Before(addr, Min({WsRunStart(addr, k - 1) : k \in cands}))

\* .str.replace(r'\s*,\s*$', '', regex=True)
StripTrailingComma(s) ==
    LET r == RStrip(s)
    IN  IF Len(r) > 0 /\ r[Len(r)] = ","
        THEN RStrip(Before(r, Len(r)))
        ELSE s

\* .str.extract(r'(\w{3})\s*$', expand=False)
ExtractState(s) ==
    LET r == RStrip(s)
        n == Len(r)
    IN  IF n >= 3 /\ \A j \in (n-2)..n : IsWord(r[j])
        THEN StrV(SubSeq(r, n - 2, n))
        ELSE Null

\* .str.replace(r'\s+\w{3}\s*$', '', regex=True)
RemoveState(s) ==
    LET r == RStrip(s)
        n == Len(r)
    IN  IF n >= 4 /\ (\A j \in (n-2)..n : IsWord(r[j])) /\ IsSpace(r[n-3])
        THEN Before(r, WsRunStart(r, n - 3))
        ELSE s

\* re.sub(r'\s*,?\s*' + re.escape(str(Suburb)) + r'\s*$', '', Address, flags=re.IGNORECASE)
StripSuburb(addr, subText) ==
    LET cands == {k \in 1..(Len(addr) + 1) :
                     LitAt(addr, k, subText) /\ OnlySpaceFrom(addr, k + Len(subText))}
        start(k) == LET a == WsRunStart(addr, k - 1)
                    IN  IF a > 1 /\ addr[a-1] = ","
                        THEN WsRunStart(addr, a - 2)
                        ELSE a
    IN  IF cands = {} THEN addr
        ELSE Before(addr, Min({start(k) : k \in cands}))

\* lines 220-224: the address after the postcode and the trailing comma are gone
AddressAfterPostcode(row) ==
    Strip(StripTrailingComma(StripPostcode(row.Address.s, StrOf(row.Postcode))))

\* lines 220-235 on one row whose Address is text
CleanRow(row) ==
    LET a2 == AddressAfterPostcode(row)
        a3 == Strip(RemoveState(a2))
        a4 == Strip(StripSuburb(a3, StrOf(row.Suburb)))
    IN  [row EXCEPT !.Address = StrV(a4), !.State = ExtractState(a2)]

\* re.sub raises TypeError on an Address that is not text
CleanAddressRaises(df) ==
    \E r \in 1..Len(df.rows) : ~IsStr(df.rows[r].Address)

CleanAddressApplies(df) == {"Address", "Postcode", "Suburb"} \subseteq df.cols

\* clean_address(df): the table returned (when it does not raise)
clean_address(df) ==
    IF CleanAddressApplies(df)
    THEN Table(df.cols \cup {"State"},
               [r \in 1..Len(df.rows) |-> CleanRow(df.rows[r])])
    ELSE df

\* standardize_suburb_names(df)
standardize_suburb_names(df) ==
    IF "Suburb" \in df.cols
    THEN SetColumn(df, "Suburb",
                   [r \in 1..Len(df.rows) |->
                       LET x == df.rows[r].Suburb
                       IN  IF IsStr(x) THEN StrV(Title(x.s)) ELSE x])
    ELSE df

NewSouthWales == <<"N","E","W"," ","S","O","U","T","H"," ","W","A","L","E","S">>

\* re.sub of a literal, case-insensitively, every non-overlapping occurrence
RECURSIVE ReplaceAll(_, _, _)
ReplaceAll(s, pat, rep) ==
    IF Len(s) = 0 THEN s
    ELSE IF LitAt(s, 1, pat)
         THEN rep \o ReplaceAll(SubSeq(s, Len(pat) + 1, Len(s)), pat, rep)
         ELSE <<s[1]>> \o ReplaceAll(SubSeq(s, 2, Len(s)), pat, rep)

\* the .str accessor raises AttributeError on a column with no text in it
\* (a column of missing values only is a float column)
StrAccessorRaises(df, col) ==
    /\ Len(df.rows) > 0
    /\ \A r \in 1..Len(df.rows) : IsNull(df.rows[r][col])

\* standardize_address_state(df)
standardize_address_state(df) ==
    IF "Address" \in df.cols
    THEN SetColumn(df, "Address",
                   [r \in 1..Len(df.rows) |->
                       LET x == df.rows[r].Address
                       IN  IF IsStr(x)
                           THEN StrV(ReplaceAll(x.s, NewSouthWales, <<"N","S","W">>))
                           ELSE x])
    ELSE df

-----------------------------------------------------------------------------
(* Function specification: clean_address on one table *)

MaxAddrRows == 2

Idle == "idle"

\* the script's own state, at rest while one function is exercised
RunIdle ==
    /\ pc = Idle /\ page = [status |-> "error", links |-> <<>>] /\ li = 0 /\ fetched = <<>> /\ all_data = <<>>
    /\ i = 0 /\ combined_df = Null /\ indexer = <<>> /\ pre_sort = Null
    /\ pre_audit = Null /\ fs = "absent" /\ fs0 = "absent" /\ log = <<>>
    /\ console = ""

\* every sequence over S of length at most n
SeqsUpTo(S, n) == UNION {[1..m -> S] : m \in 0..n}

EmptyRow == [c \in Columns |-> Null]

Sydney == <<"S","y","d","n","e","y">>
P2000 == <<"2","0","0","0">>

Streets == { <<"1"," ","M","a","i","n"," ","S","t">>,
             <<"2"," ","B","a","y"," ","R","o","a","d">> }
SuburbParts == { <<>>, <<","," ","S","Y","D","N","E","Y">> }
StateParts == { <<>>, <<" ","N","S","W">> }
PostcodeParts == { <<>>, <<" ","2","0","0","0"," ">> }

AddressTexts ==
    {st \o su \o sp \o pp : st \in Streets, su \in SuburbParts,
                            sp \in StateParts, pp \in PostcodeParts}

AddrRows ==
    {[EmptyRow EXCEPT !.Address = a, !.Postcode = p, !.Suburb = s] :
        a \in {Null} \cup {StrV(t) : t \in AddressTexts},
        p \in {Null, StrV(P2000)},
        s \in {Null, StrV(Sydney)}}

AddrTables ==
    {Table({"Address", "Postcode", "Suburb"}, rows) :
        rows \in SeqsUpTo(AddrRows, MaxAddrRows) \ {<<>>}}

Raised == [raised |-> TRUE]
Returned(df) == [raised |-> FALSE, df |-> df]

InitAddress ==
    /\ RunIdle
    /\ input \in AddrTables
    /\ output = Null

\* clean_address(input) returns
CleanAddressReturn ==
    /\ output = Null
    /\ ~CleanAddressRaises(input)
    /\ output' = Returned(clean_address(input))
    /\ UNCHANGED <<input, runVars>>

\* clean_address(input) raises out of re.sub
CleanAddressRaise ==
    /\ output = Null
    /\ CleanAddressRaises(input)
    /\ output' = Raised
    /\ UNCHANGED <<input, runVars>>

NextAddress == CleanAddressReturn \/ CleanAddressRaise

SpecAddress == InitAddress /\ [][NextAddress]_vars

\* the last whitespace-bounded token of a text
LastToken(s) ==
    LET r == RStrip(s)
        ws == {k \in 1..Len(r) : IsSpace(r[k])}
    IN  IF ws = {} THEN r ELSE SubSeq(r, Max(ws) + 1, Len(r))

IsStateToken(t) == Len(t) = 3 /\ \A k \in 1..3 : IsLetter(t[k])

HasMissingField(row) ==
    IsNull(row.Address) \/ IsNull(row.Postcode) \/ IsNull(row.Suburb)

\* C8: clean_address never raises, and a row in which Address, Postcode or
\* Suburb is missing comes back with its Address as it was and no State.
C8_MissingFieldsPassThrough ==
    output # Null =>
        /\ ~output.raised
        /\ \A r \in 1..Len(input.rows) :
              HasMissingField(input.rows[r]) =>
                  /\ output.df.rows[r].Address = input.rows[r].Address
                  /\ IsNull(output.df.rows[r].State)

\* C10: State is the trailing whitespace-bounded three-letter token of the
\* address left after the postcode and the comma are stripped, and Null when
\* there is no such token; the state step removes exactly that token.
C10_StateIsTrailingToken ==
    (output # Null /\ ~output.raised) =>
        \A r \in 1..Len(input.rows) :
            LET a2 == AddressAfterPostcode(input.rows[r])
                tok == LastToken(a2)
            IN  /\ output.df.rows[r].State =
                       (IF IsStateToken(tok) THEN StrV(tok) ELSE Null)
                /\ Strip(RemoveState(a2)) =
                       (IF IsStateToken(tok)
                        THEN RStrip(Before(a2, Len(a2) - 2))
                        ELSE a2)

-----------------------------------------------------------------------------
(* remove_duplicates *)

\* DataFrame.duplicated(keep='last'): a row is marked when an equal row follows it
DuplicatedKeepLast(rows) ==
    [r \in 1..Len(rows) |-> \E q \in (r+1)..Len(rows) : rows[q] = rows[r]]

\* DataFrame.duplicated(): a row is marked when an equal row precedes it
\* (missing equals missing)
Duplicated(rows) ==
    [r \in 1..Len(rows) |-> \E q \in 1..(r-1) : rows[q] = rows[r]]

\* rows[k..] without the marked rows
RECURSIVE Unmarked(_, _, _)
Unmarked(rows, mask, k) ==
    IF k > Len(rows) THEN <<>>
    ELSE (IF mask[k] THEN <<>> ELSE <<rows[k]>>) \o Unmarked(rows, mask, k + 1)

\* df.drop_duplicates().reset_index(drop=True)
drop_duplicates(df) ==
    [df EXCEPT !.rows = Unmarked(df.rows, Duplicated(df.rows), 1)]

\* remove_duplicates(df): the table returned and the count it prints
remove_duplicates(df) ==
    LET before == Len(df.rows)
        out == drop_duplicates(df)
        after == Len(out.rows)
    IN  [df |-> out, removed |-> before - after]

-----------------------------------------------------------------------------
(* Function specification: remove_duplicates, applied once and then again *)

MaxDedupRows == 4

DedupRows ==
    { [EmptyRow EXCEPT !.Price = NumV(15, 1)],
      EmptyRow,
      [EmptyRow EXCEPT !.Price = NumV(15, 1), !.Postcode = StrV(P2000)] }

InitDedup ==
    /\ RunIdle
    /\ input \in {Table({"Price", "Postcode"}, rows) :
                     rows \in SeqsUpTo(DedupRows, MaxDedupRows)}
    /\ output = <<>>

\* remove_duplicates(input)
DedupOnce ==
    /\ output = <<>>
    /\ output' = <<remove_duplicates(input)>>
    /\ UNCHANGED <<input, runVars>>

\* remove_duplicates on the table the first call returned
DedupAgain ==
    /\ Len(output) = 1
    /\ output' = Append(output, remove_duplicates(output[1].df))
    /\ UNCHANGED <<input, runVars>>

NextDedup == DedupOnce \/ DedupAgain

SpecDedup == InitDedup /\ [][NextDedup]_vars

\* position of the first row of s equal to v
FirstIndex(s, v) == Min({k \in 1..Len(s) : s[k] = v})

NoTwoEqual(s) == \A p, q \in 1..Len(s) : s[p] = s[q] => p = q

\* C4: the output holds each distinct input row once, in the order of the
\* first occurrences (so it is a subsequence of the input); the count
\* reported is input rows minus output rows; a second application changes
\* nothing and removes nothing.
C4_DedupIdempotentStable ==
    Len(output) >= 1 =>
        LET inr == input.rows
            out == output[1].df.rows
        IN  /\ NoTwoEqual(out)
            /\ Range(out) = Range(inr)
            /\ \A p, q \in 1..Len(out) :
                  p < q => FirstIndex(inr, out[p]) < FirstIndex(inr, out[q])
            /\ output[1].removed = Len(inr) - Len(out)
            /\ output[1].df.cols = input.cols
            /\ Len(output) = 2 =>
                  /\ output[2].df = output[1].df
                  /\ output[2].removed = 0

\* a table with a repeated row has gone through both applications
C4_Witness ==
    /\ Len(output) = 2
    /\ Len(input.rows) >= 3
    /\ input.rows[1] = input.rows[3]
    /\ input.rows[1] # input.rows[2]
    /\ output[1].removed >= 1

-----------------------------------------------------------------------------
(* check_invalidate_postcodes *)

\* Series.str.match(r'^\d{4}$'): \d is any decimal digit, and $ also matches
\* just before a newline that ends the text
MatchesFourDigits(s) ==
    /\ Len(s) >= 4
    /\ \A k \in 1..4 : IsDigit(s[k])
    /\ \/ Len(s) = 4
       \/ Len(s) = 5 /\ s[5] = LF

\* int() of a text that matched: surrounding whitespace is ignored
IntOfText(s) == IntOfDigits(Strip(s))

\* the distinct elements of s, in order of first appearance: Series.unique()
Unique(s) == Unmarked(s, Duplicated(s), 1)

\* check_invalidate_postcodes(df): the table as it leaves the function and
\* the listing it prints
check_invalidate_postcodes(df) ==
    IF "Postcode" \notin df.cols
    THEN [df |-> df, invalid_count |-> 0, invalid_postcodes |-> <<>>]
    ELSE
      LET n == Len(df.rows)
          text == [r \in 1..n |-> StrOf(df.rows[r].Postcode)]
          invalid_mask == [r \in 1..n |-> ~MatchesFourDigits(text[r])]
          invalid_count == Cardinality({r \in 1..n : invalid_mask[r]})
          invalid_text == Unmarked(text, [r \in 1..n |-> ~invalid_mask[r]], 1)
          cell(r) == IF invalid_mask[r] THEN StrV(text[r])
                     ELSE IntV(IntOfText(text[r]))
      IN  [df |-> [df EXCEPT !.rows =
                      [r \in 1..n |-> [df.rows[r] EXCEPT !.Postcode = cell(r)]]],
           invalid_count |-> invalid_count,
           invalid_postcodes |-> Unique(invalid_text)]

\* dtype inference of a loaded or concatenated column: a column with no text
\* in it and a missing value is a float column, so its integers are floats
InferDtype(df, col) ==
    LET cells == {df.rows[r][col] : r \in 1..Len(df.rows)}
    IN  IF (\E c \in cells : c.k = "str") \/ ~(\E c \in cells : c.k \in {"null", "float"})
        THEN df
        ELSE SetColumn(df, col,
                       [r \in 1..Len(df.rows) |->
                           LET x == df.rows[r][col]
                           IN  IF x.k = "int" THEN FloatV(x.n) ELSE x])

-----------------------------------------------------------------------------
(* Function specification: check_invalidate_postcodes on one column *)

MaxPostcodeRows == 2

PostcodeCells ==
    { Null, IntV(2000), IntV(20000),
      StrV(P2000), StrV(<<"N","S","W">>), StrV(<<"2","0","0","0","0">>),
      StrV(<<"2","0","0">>), StrV(<<" ","2","0","0","0">>),
      StrV(<<"2","0","0","0",LF>>),
      StrV(<<ArabicTwo, ArabicZero, ArabicZero, ArabicZero>>) }

InitPostcode ==
    /\ RunIdle
    /\ \E cells \in SeqsUpTo(PostcodeCells, MaxPostcodeRows) :
          input = InferDtype(
                      Table({"Postcode"},
                            [r \in 1..Len(cells) |->
                                [EmptyRow EXCEPT !.Postcode = cells[r]]]),
                      "Postcode")
    /\ output = Null

\* check_invalidate_postcodes(input)
CheckPostcodes ==
    /\ output = Null
    /\ output' = check_invalidate_postcodes(input)
    /\ UNCHANGED <<input, runVars>>

NextPostcode == CheckPostcodes

SpecPostcode == InitPostcode /\ [][NextPostcode]_vars

IsFourAsciiDigits(s) == Len(s) = 4 /\ \A k \in 1..4 : IsAsciiDigit(s[k])

\* C7: a cell whose text is exactly four ASCII digits becomes that integer,
\* every other cell is left as it was, and the listing holds each distinct
\* invalid value once.
C7_PostcodeAudit ==
    output # Null =>
        LET n == Len(input.rows)
            cell(r) == input.rows[r].Postcode
            bad == {r \in 1..n : ~IsFourAsciiDigits(StrOf(cell(r)))}
        IN  /\ \A r \in 1..n :
                  output.df.rows[r].Postcode =
                      (IF r \in bad THEN cell(r)
                       ELSE IntV(IntOfDigits(StrOf(cell(r)))))
            /\ NoTwoEqual(output.invalid_postcodes)
            /\ Range(output.invalid_postcodes) = {StrOf(cell(r)) : r \in bad}

-----------------------------------------------------------------------------
(* The per-column conversions of the pipeline *)

DATE_FIELDS == {"PriceUpdatedDate"}

\* pd.to_datetime(cell, errors='coerce') then .dt.date: a date-time keeps its
\* calendar date, anything that does not parse is missing
ToDate(c) == IF c.k = "datetime" THEN Date(c.day) ELSE Null

\* clean_datetime_fields(df, fields)
clean_datetime_fields(df, fields) ==
    [df EXCEPT !.rows =
        [r \in 1..Len(df.rows) |->
            [c \in Columns |->
                IF c \in fields /\ c \in df.cols THEN ToDate(df.rows[r][c])
                ELSE df.rows[r][c]]]]

\* the decimal number a text denotes, in lowest terms, or Null: an optional
\* sign, digits, at most one point, at least one digit
ParseNumber(s) ==
    LET neg == Len(s) > 0 /\ s[1] = "-"
        body == IF neg THEN Tail(s) ELSE s
        dots == {k \in 1..Len(body) : body[k] = "."}
        wellFormed ==
            /\ \A k \in 1..Len(body) : IsAsciiDigit(body[k]) \/ body[k] = "."
            /\ Cardinality(dots) <= 1
            /\ \E k \in 1..Len(body) : IsAsciiDigit(body[k])
        dot == IF dots = {} THEN Len(body) + 1 ELSE Min(dots)
        whole == Before(body, dot)
        frac0 == SubSeq(body, dot + 1, Len(body))
        sig == {k \in 1..Len(frac0) : frac0[k] # "0"}
        frac == IF sig = {} THEN <<>> ELSE SubSeq(frac0, 1, Max(sig))
        m == IntOfDigits(whole \o frac)
    IN  IF wellFormed THEN NumV(IF neg THEN 0 - m ELSE m, Len(frac)) ELSE Null

\* pd.to_numeric(cell, errors='coerce')
ToNumeric(c) ==
    CASE c.k = "num" -> c
      [] c.k = "str" -> ParseNumber(c.s)
      [] OTHER -> Null

\* check_invalid_values(df): the table as it leaves the function (Price is
\* assigned back to the column) and the summary
check_invalid_values(df) ==
    IF "Price" \notin df.cols
    THEN [df |-> df, invalid_summary |-> <<>>]
    ELSE
      LET out == SetColumn(df, "Price",
                           [r \in 1..Len(df.rows) |-> ToNumeric(df.rows[r].Price)])
          n == Len(out.rows)
          invalid == {r \in 1..n : IsNull(out.rows[r].Price) \/ out.rows[r].Price.m < 0}
      IN  [df |-> out,
           invalid_summary |->
               IF invalid = {} THEN <<>>
               ELSE <<[field |-> "Price", invalid_count |-> Cardinality(invalid)]>>]

\* check_missing_values(df): the columns with missing cells and their counts
check_missing_values(df) ==
    LET missing(c) == Cardinality({r \in 1..Len(df.rows) : IsNull(df.rows[r][c])})
    IN  {[column |-> c, missing_values |-> missing(c)] :
            c \in {d \in df.cols : missing(d) > 0}}

\* pd.concat(dataframes, ignore_index=True): the union of the columns, the
\* rows one table after the other
RECURSIVE ConcatRows(_, _)
ConcatRows(dfs, k) ==
    IF k > Len(dfs) THEN <<>> ELSE dfs[k].rows \o ConcatRows(dfs, k + 1)

concat(dfs) ==
    InferDtype(Table(UNION {dfs[k].cols : k \in 1..Len(dfs)}, ConcatRows(dfs, 1)),
               "Postcode")

Orders(n) == {p \in [1..n -> 1..n] : \A a, b \in 1..n : p[a] = p[b] => a = b}

\* nargsort(keys) with nulls first in place of last
NargsortNullsFirst(keys) ==
    LET n == Len(keys)
    IN  {p \in Orders(n) :
            \A a, b \in 1..n : a < b =>
                \/ IsNull(keys[p[a]]) /\ ~IsNull(keys[p[b]])
                \/ IsNull(keys[p[a]]) /\ IsNull(keys[p[b]]) /\ p[a] < p[b]
                \/ /\ ~IsNull(keys[p[a]]) /\ ~IsNull(keys[p[b]])
                   /\ keys[p[a]].day <= keys[p[b]].day}

\* nargsort(keys, kind='quicksort', ascending=True, na_position='last'): the
\* orders it can return.  The keys that are not missing come first, in
\* ascending order, argsorted by a sort that is not stable; the missing ones
\* follow in their original order.
Nargsort(keys) ==
    LET n == Len(keys)
    IN  {p \in Orders(n) :
            \A a, b \in 1..n : a < b =>
                \/ ~IsNull(keys[p[a]]) /\ IsNull(keys[p[b]])
                \/ IsNull(keys[p[a]]) /\ IsNull(keys[p[b]]) /\ p[a] < p[b]
                \/ /\ ~IsNull(keys[p[a]]) /\ ~IsNull(keys[p[b]])
                   /\ keys[p[a]].day <= keys[p[b]].day}

\* the rows of df taken in the order p
Take(df, p) == [df EXCEPT !.rows = [r \in 1..Len(p) |-> df.rows[p[r]]]]

\* text of one cell in the written file
CellText(c) ==
    CASE c.k = "null" -> <<>>
      [] c.k = "str" -> c.s
      [] c.k = "int" -> DigitsOf(c.n)
      [] c.k = "float" -> DigitsOf(c.n) \o <<".","0">>
      [] c.k = "date" -> <<"2","0","2","4","-","0","5","-">> \o
                         (IF c.day < 10 THEN <<"0">> ELSE <<>>) \o DigitsOf(c.day)
      [] c.k = "num" ->
            LET a == IF c.m < 0 THEN 0 - c.m ELSE c.m
                d == DigitsOf(a)
                pad == [k \in 1..(c.e + 1 - Len(d)) |-> "0"] \o d
                w == Len(pad) - c.e
            IN  (IF c.m < 0 THEN <<"-">> ELSE <<>>) \o SubSeq(pad, 1, w) \o <<".">> \o
                (IF c.e = 0 THEN <<"0">> ELSE SubSeq(pad, w + 1, Len(pad)))

\* df.to_csv(output_file, index=False): a header and one line of cell texts per row
to_csv(df) ==
    [header |-> df.cols,
     lines |-> [r \in 1..Len(df.rows) |-> [c \in df.cols |-> CellText(df.rows[r][c])]]]

-----------------------------------------------------------------------------
(* What the portal serves *)

MaxLinks == 2

Href1 == <<"d","/","f","2","0","2","4",".","c","s","v">>
Href2 == <<"d","/","F","2","0","2","5",".","X","L","S","X">>
Href3 == <<"d","/","f","2","0","2","3",".","c","s","v">>
Href4 == <<"2","0","2","4","/","f",".","c","s","v">>
Href5 == <<"d","/","f","2","0","2","4",".","p","d","f">>
Href6 == <<"d","/","f","2","0","2","5",".","x","l","s">>

Hrefs == {Href1, Href2, Href3, Href4, Href5, Href6}

RawColumns == {"PriceUpdatedDate", "Price", "Postcode", "Suburb", "Address"}

StationRow(d, price, postcode, suburb, address) ==
    [EmptyRow EXCEPT !.PriceUpdatedDate = d, !.Price = price, !.Postcode = postcode,
                     !.Suburb = suburb, !.Address = address]

MainStSydney ==
    StrV(<<"1"," ","M","a","i","n"," ","S","t",","," ","S","Y","D","N","E","Y",
           " ","N","S","W"," ","2","0","0","0">>)
BayRoad ==
    StrV(<<"2"," ","B","a","y"," ","R","o","a","d"," ">> \o NewSouthWales \o
         <<" ","2","0","1","0">>)
HighSt == StrV(<<"9"," ","H","i","g","h"," ","S","t">>)

\* two rows that differ in the time of day only, and a third
File2024 ==
    Table(RawColumns,
          << StationRow(DateTime(2, 0), NumV(15, 1), IntV(2000),
                        StrV(<<"S","Y","D","N","E","Y">>), MainStSydney),
             StationRow(DateTime(2, 1), NumV(15, 1), IntV(2000),
                        StrV(<<"S","Y","D","N","E","Y">>), MainStSydney),
             StationRow(DateTime(1, 0), NumV(16, 1), IntV(2010),
                        StrV(<<"b","a","y">>), BayRoad) >>)

\* a row of File2024 again, and a row with an unreadable date and price
File2025 ==
    Table(RawColumns,
          << StationRow(DateTime(2, 0), NumV(15, 1), IntV(2000),
                        StrV(<<"S","Y","D","N","E","Y">>), MainStSydney),
             StationRow(StrV(<<"n","/","a">>), StrV(<<"a">>), StrV(<<"N","S","W">>),
                        Null, HighSt) >>)

\* a row without an address among rows with one
FileMissingAddress ==
    Table(RawColumns,
          << StationRow(DateTime(1, 0), NumV(15, 1), StrV(P2000), StrV(Sydney), HighSt),
             StationRow(DateTime(1, 0), NumV(15, 1), StrV(P2000), StrV(Sydney), Null) >>)

Files == {File2024, File2025, FileMissingAddress}

EmptyTable == Table({}, <<>>)

\* a response: the request fails, or it delivers the bytes of a CSV file or
\* of a workbook
Responses ==
    {[status |-> "error", format |-> "none", table |-> EmptyTable]}
    \cup {[status |-> "ok", format |-> f, table |-> t] : f \in {"csv", "xlsx"}, t \in Files}

OldFile == "a file of an earlier run"

-----------------------------------------------------------------------------
(* download_fuel_data *)

YEAR_FILTER == { <<"2","0","2","4">>, <<"2","0","2","5">> }

\* an <a> element without an href attribute
NoHref == <<"no href">>

PageError == [status |-> "error", links |-> <<>>]
PageOf(links) == [status |-> "ok", links |-> links]

\* file_url.split('/')[-1]
LastSegment(url) ==
    LET slashes == {k \in 1..Len(url) : url[k] = "/"}
    IN  IF slashes = {} THEN url ELSE SubSeq(url, Max(slashes) + 1, Len(url))

\* file_url.split('/')[-1].lower()
FileName(url) == LowerStr(LastSegment(url))

\* sub in s
Contains(s, sub) ==
    \E k \in 1..(Len(s) - Len(sub) + 1) : SubSeq(s, k, k + Len(sub) - 1) = sub

\* s.endswith(suffix)
EndsWith(s, suffix) ==
    Len(s) >= Len(suffix) /\ SubSeq(s, Len(s) - Len(suffix) + 1, Len(s)) = suffix

\* any(year in file_name for year in YEAR_FILTER)
YearMatches(file_name) == \E year \in YEAR_FILTER : Contains(file_name, year)

\* the loader the extension selects: "csv", "xlsx" or "unsupported"
LoaderFor(file_name) ==
    IF EndsWith(file_name, <<".","c","s","v">>) THEN "csv"
    ELSE IF EndsWith(file_name, <<".","x","l","s","x">>) THEN "xlsx"
    ELSE "unsupported"

\* a cell of a delimited-text file is text; this is whether it reads as a number
ReadsAsNumber(c) ==
    \/ c.k \in {"num", "int"}
    \/ c.k = "str" /\ ParseNumber(c.s) # Null
ReadsAsInteger(c) ==
    \/ c.k = "int"
    \/ c.k = "str" /\ Len(c.s) > 0 /\ \A k \in 1..Len(c.s) : IsAsciiDigit(c.s[k])

\* the cell as text, missing cells apart
AsText(c) == IF IsNull(c) THEN c ELSE StrV(CellText(c))

\* pd.read_csv(BytesIO(content)): a column whose cells all read as numbers is
\* numeric, any other column holds every cell as the text it is in the file
read_csv(raw) ==
    LET cells(col) == {raw.rows[r][col] : r \in 1..Len(raw.rows)} \ {Null}
        price(c) == IF \A d \in cells("Price") : ReadsAsNumber(d)
                    THEN ToNumeric(AsText(c)) ELSE AsText(c)
        postcode(c) == IF \A d \in cells("Postcode") : ReadsAsInteger(d)
                       THEN (IF IsNull(c) THEN c ELSE IntV(IntOfDigits(CellText(c))))
                       ELSE AsText(c)
        typed == [raw EXCEPT !.rows =
                    [r \in 1..Len(raw.rows) |->
                        [raw.rows[r] EXCEPT !.Price = price(@),
                                            !.Postcode = postcode(@)]]]
    IN  InferDtype(typed, "Postcode")

\* pd.read_excel(BytesIO(content)): the cells have the types the workbook gives them
read_excel(raw) == InferDtype(raw, "Postcode")

\* the table the loader the extension selects makes of the bytes
Load(file_name, resp) ==
    IF LoaderFor(file_name) = "csv" THEN read_csv(resp.table) ELSE read_excel(resp.table)

\* what the request of one file and its load come to: "error" when
\* raise_for_status, read_csv or read_excel raises, "unsupported" when the
\* extension selects no loader, "loaded" otherwise
FileOutcome(file_name, resp) ==
    IF resp.status # "ok" THEN "error"
    ELSE IF LoaderFor(file_name) = "unsupported" THEN "unsupported"
    ELSE IF LoaderFor(file_name) # resp.format THEN "error"
    ELSE "loaded"

\* the handler of a failed file, were it to leave the loop
AfterFileBreaks(outcome, k, n) == IF outcome = "loaded" THEN k + 1 ELSE n + 1

\* the link the loop turns to after a file whose outcome was `outcome`: the
\* except clause and the continue both go on with the next link
AfterFile(outcome, k, n) == k + 1

\* requests.get(TARGET_URL) and raise_for_status: on an exception the outer
\* handler ends the function with nothing collected
GetPage ==
    /\ pc = "get_page"
    /\ IF page.status = "error"
       THEN pc' = "download_return" /\ li' = 0
       ELSE pc' = "links" /\ li' = 1
    /\ UNCHANGED <<page, fetched, all_data, i, combined_df, indexer, pre_sort,
                   pre_audit, fs, fs0, log, console, input, output>>

\* one iteration of `for link in links`
NextLink ==
    /\ pc = "links"
    /\ li <= Len(page.links)
    /\ IF page.links[li] = NoHref
       THEN \* link['href'] raises KeyError: the outer handler ends the loop
            /\ pc' = "download_return"
            /\ UNCHANGED <<li, fetched, all_data>>
       ELSE IF ~YearMatches(FileName(page.links[li]))
       THEN /\ li' = li + 1
            /\ UNCHANGED <<pc, fetched, all_data>>
       ELSE \E resp \in Responses :
            LET outcome == FileOutcome(FileName(page.links[li]), resp)
            IN  /\ fetched' = fetched @@ (li :> resp)
                /\ all_data' = IF outcome = "loaded"
                               THEN Append(all_data, Load(FileName(page.links[li]), resp))
                               ELSE all_data
                /\ li' = AfterFile(outcome, li, Len(page.links))
                /\ pc' = pc
    /\ UNCHANGED <<page, i, combined_df, indexer, pre_sort, pre_audit, fs, fs0,
                   log, console, input, output>>

\* the loop is over: print the total and return all_data
DownloadReturn ==
    /\ \/ pc = "links" /\ li > Len(page.links)
       \/ pc = "download_return"
    /\ pc' = "main"
    /\ UNCHANGED <<page, li, fetched, all_data, i, combined_df, indexer,
                   pre_sort, pre_audit, fs, fs0, log, console, input, output>>

-----------------------------------------------------------------------------
(* __main__ and save_to_csv *)

FirstTableStage == "clean_datetime_fields"

\* the loop body with the call of remove_duplicates left out
AfterTableStageNoDedup(stage) ==
    CASE stage = "clean_datetime_fields" -> "standardize_suburb_names"
      [] stage = "remove_duplicates" -> "clean_datetime_fields"
      [] stage = "standardize_suburb_names" -> "standardize_address_state"
      [] stage = "standardize_address_state" -> "clean_address"
      [] stage = "clean_address" -> "next_table"

\* lines 248-252: the call that follows each call of the loop body
AfterTableStage(stage) ==
    CASE stage = "clean_datetime_fields" -> "remove_duplicates"
      [] stage = "remove_duplicates" -> "standardize_suburb_names"
      [] stage = "standardize_suburb_names" -> "standardize_address_state"
      [] stage = "standardize_address_state" -> "clean_address"
      [] stage = "clean_address" -> "next_table"

\* `if all_data:` taken always
MainHasDataAlways(dfs) == TRUE

\* `if all_data:`
MainHasData(dfs) == dfs # <<>>

Logged(stage, k) == [stage |-> stage, i |-> k]

\* the step of the loop body at `stage` replaces all_data[i] by df
TableStep(stage, df) ==
    /\ all_data' = [all_data EXCEPT ![i] = df]
    /\ log' = Append(log, Logged(stage, i))
    /\ LET next == AfterTableStage(stage)
       IN  IF next # "next_table" THEN pc' = next /\ i' = i
           ELSE IF i < Len(all_data) THEN pc' = FirstTableStage /\ i' = i + 1
           ELSE pc' = "save_to_csv" /\ i' = i

\* an exception nothing handles ends the script
Crash(stage) ==
    /\ pc' = "crashed"
    /\ log' = Append(log, Logged(stage, i))
    /\ UNCHANGED <<all_data, i>>

Main ==
    /\ pc = "main"
    /\ IF MainHasData(all_data)
       THEN /\ pc' = IF Len(all_data) >= 1 THEN FirstTableStage ELSE "save_to_csv"
            /\ i' = IF Len(all_data) >= 1 THEN 1 ELSE i
            /\ console' = console
       ELSE pc' = "done" /\ i' = i /\ console' = "No data was collected."
    /\ UNCHANGED <<page, li, fetched, all_data, combined_df, indexer, pre_sort,
                   pre_audit, fs, fs0, log, input, output>>

CleanDatetimeFields ==
    /\ pc = "clean_datetime_fields"
    /\ i \in 1..Len(all_data)
    /\ TableStep("clean_datetime_fields", clean_datetime_fields(all_data[i], DATE_FIELDS))
    /\ UNCHANGED <<page, li, fetched, combined_df, indexer, pre_sort, pre_audit,
                   fs, fs0, console, input, output>>

RemoveDuplicates ==
    /\ pc = "remove_duplicates"
    /\ i \in 1..Len(all_data)
    /\ TableStep("remove_duplicates", remove_duplicates(all_data[i]).df)
    /\ UNCHANGED <<page, li, fetched, combined_df, indexer, pre_sort, pre_audit,
                   fs, fs0, console, input, output>>

StandardizeSuburbNames ==
    /\ pc = "standardize_suburb_names"
    /\ i \in 1..Len(all_data)
    /\ TableStep("standardize_suburb_names", standardize_suburb_names(all_data[i]))
    /\ UNCHANGED <<page, li, fetched, combined_df, indexer, pre_sort, pre_audit,
                   fs, fs0, console, input, output>>

StandardizeAddressState ==
    /\ pc = "standardize_address_state"
    /\ i \in 1..Len(all_data)
    /\ IF "Address" \in all_data[i].cols /\ StrAccessorRaises(all_data[i], "Address")
       THEN Crash("standardize_address_state")
       ELSE TableStep("standardize_address_state", standardize_address_state(all_data[i]))
    /\ UNCHANGED <<page, li, fetched, combined_df, indexer, pre_sort, pre_audit,
                   fs, fs0, console, input, output>>

CleanAddress ==
    /\ pc = "clean_address"
    /\ i \in 1..Len(all_data)
    /\ IF CleanAddressApplies(all_data[i]) /\ CleanAddressRaises(all_data[i])
       THEN Crash("clean_address")
       ELSE TableStep("clean_address", clean_address(all_data[i]))
    /\ UNCHANGED <<page, li, fetched, combined_df, indexer, pre_sort, pre_audit,
                   fs, fs0, console, input, output>>

\* a step of save_to_csv: combined_df becomes df and the script moves to `next`
SaveStep(stage, df, next) ==
    /\ combined_df' = df
    /\ log' = Append(log, Logged(stage, 0))
    /\ pc' = next

\* lines 164-171: the guard and pd.concat
Concat ==
    /\ pc = "save_to_csv"
    /\ IF all_data = <<>>
       THEN /\ pc' = "done"
            /\ console' = "No data to save"
            /\ UNCHANGED <<combined_df, log>>
       ELSE /\ SaveStep("concat", concat(all_data), "remove_duplicates_combined")
            /\ console' = console
    /\ UNCHANGED <<page, li, fetched, all_data, i, indexer, pre_sort, pre_audit,
                   fs, fs0, input, output>>

\* line 175
RemoveDuplicatesCombined ==
    /\ pc = "remove_duplicates_combined"
    /\ SaveStep("remove_duplicates_combined", remove_duplicates(combined_df).df,
                "sort_values")
    /\ UNCHANGED <<page, li, fetched, all_data, i, indexer, pre_sort, pre_audit,
                   fs, fs0, console, input, output>>

\* lines 178-180
SortValues ==
    /\ pc = "sort_values"
    /\ pre_sort' = combined_df
    /\ IF "PriceUpdatedDate" \in combined_df.cols
       THEN \E p \in Nargsort([r \in 1..Len(combined_df.rows) |->
                                  combined_df.rows[r].PriceUpdatedDate]) :
                /\ indexer' = p
                /\ SaveStep("sort_values", Take(combined_df, p), "check_missing_values")
       ELSE /\ indexer' = [r \in 1..Len(combined_df.rows) |-> r]
            /\ SaveStep("sort_values", combined_df, "check_missing_values")
    /\ UNCHANGED <<page, li, fetched, all_data, i, pre_audit, fs, fs0, console,
                   input, output>>

\* line 184
CheckMissingValues ==
    /\ pc = "check_missing_values"
    /\ pre_audit' = combined_df
    /\ SaveStep("check_missing_values", combined_df, "check_invalid_values")
    /\ console' = IF check_missing_values(combined_df) = {}
                  THEN "No missing values found in the dataset!"
                  ELSE "Missing Values Summary:"
    /\ UNCHANGED <<page, li, fetched, all_data, i, indexer, pre_sort, fs, fs0,
                   input, output>>

\* line 185
CheckInvalidValues ==
    /\ pc = "check_invalid_values"
    /\ SaveStep("check_invalid_values", check_invalid_values(combined_df).df,
                "check_invalidate_postcodes")
    /\ console' = IF check_invalid_values(combined_df).invalid_summary = <<>>
                  THEN "No invalid values found in Price field!"
                  ELSE "Price Field Invalid Values Summary:"
    /\ UNCHANGED <<page, li, fetched, all_data, i, indexer, pre_sort, pre_audit,
                   fs, fs0, input, output>>

\* line 186
CheckInvalidatePostcodes ==
    /\ pc = "check_invalidate_postcodes"
    /\ SaveStep("check_invalidate_postcodes",
                check_invalidate_postcodes(combined_df).df, "to_csv")
    /\ console' = IF check_invalidate_postcodes(combined_df).invalid_count > 0
                  THEN "Invalid postcode values:"
                  ELSE IF "Postcode" \in combined_df.cols
                  THEN "All postcodes are valid 4-digit numbers"
                  ELSE console
    /\ UNCHANGED <<page, li, fetched, all_data, i, indexer, pre_sort, pre_audit,
                   fs, fs0, input, output>>

\* lines 192-198: remove the file that is there, write the new one
ToCsv ==
    /\ pc = "to_csv"
    /\ fs' = to_csv(combined_df)
    /\ SaveStep("to_csv", combined_df, "done")
    /\ console' = "Successfully saved"
    /\ UNCHANGED <<page, li, fetched, all_data, i, indexer, pre_sort, pre_audit,
                   fs0, input, output>>

NextDownload == GetPage \/ NextLink \/ DownloadReturn

NextMain ==
    \/ Main
    \/ CleanDatetimeFields
    \/ RemoveDuplicates
    \/ StandardizeSuburbNames
    \/ StandardizeAddressState
    \/ CleanAddress
    \/ Concat
    \/ RemoveDuplicatesCombined
    \/ SortValues
    \/ CheckMissingValues
    \/ CheckInvalidValues
    \/ CheckInvalidatePostcodes
    \/ ToCsv

Next == NextDownload \/ NextMain

-----------------------------------------------------------------------------
(* The script from its first line *)

Init ==
    /\ pc = "get_page"
    /\ page \in {PageError} \cup {PageOf(s) : s \in SeqsUpTo(Hrefs \cup {NoHref}, MaxLinks)}
    /\ li = 0
    /\ fetched = <<>>
    /\ all_data = <<>>
    /\ i = 0
    /\ combined_df = Null
    /\ indexer = <<>>
    /\ pre_sort = Null
    /\ pre_audit = Null
    /\ fs0 \in {"absent", OldFile}
    /\ fs = fs0
    /\ log = <<>>
    /\ console = ""
    /\ input = Null
    /\ output = Null

Spec == Init /\ [][Next]_vars

-----------------------------------------------------------------------------
(* The script from the return of download_fuel_data, over generated tables *)

MaxTables == 2
MaxRows == 3

DataColumns == {"PriceUpdatedDate", "Price", "Postcode"}

DataRow(d, price, postcode) ==
    [EmptyRow EXCEPT !.PriceUpdatedDate = d, !.Price = price, !.Postcode = postcode]

DataRows ==
    { DataRow(DateTime(2, 0), StrV(<<"1",".","5">>), StrV(P2000)),
      DataRow(DateTime(1, 0), StrV(<<"1",".","5">>), StrV(P2000)),
      DataRow(DateTime(1, 1), StrV(<<"1",".","5","0">>), StrV(P2000)),
      DataRow(StrV(<<"n","/","a">>), StrV(<<"a">>), StrV(<<"N","S","W">>)) }

\* the cut points that split n rows into k consecutive tables
Cuts(n, k) ==
    {c \in [0..k -> 0..n] :
        /\ c[0] = 0
        /\ c[k] = n
        /\ \A t \in 1..k : c[t-1] <= c[t]}

\* a file without the date column
WithoutDate(df) ==
    Table(df.cols \ {"PriceUpdatedDate"},
          [r \in 1..Len(df.rows) |-> [df.rows[r] EXCEPT !.PriceUpdatedDate = Null]])

InitData ==
    /\ pc = "main"
    /\ \E k \in 0..MaxTables :
       \E flat \in SeqsUpTo(DataRows, IF k = 0 THEN 0 ELSE MaxRows) :
       \E c \in Cuts(Len(flat), k) :
       \E dateless \in SUBSET (1..k) :
          LET file(t) == Table(DataColumns, SubSeq(flat, c[t-1] + 1, c[t]))
              raw(t) == IF t \in dateless THEN WithoutDate(file(t)) ELSE file(t)
          IN  /\ all_data = [t \in 1..k |-> read_csv(raw(t))]
              /\ page = PageOf([t \in 1..k |-> Href1])
              /\ fetched = [t \in 1..k |->
                              [status |-> "ok", format |-> "csv", table |-> raw(t)]]
              /\ li = k + 1
    /\ i = 0
    /\ combined_df = Null
    /\ indexer = <<>>
    /\ pre_sort = Null
    /\ pre_audit = Null
    /\ fs0 = OldFile
    /\ fs = fs0
    /\ log = <<>>
    /\ console = ""
    /\ input = Null
    /\ output = Null

SpecData == InitData /\ [][NextMain]_vars

-----------------------------------------------------------------------------
(* Claims about the run *)

TableStages == <<"clean_datetime_fields", "remove_duplicates",
                 "standardize_suburb_names", "standardize_address_state",
                 "clean_address">>
SaveStages == <<"concat", "remove_duplicates_combined", "sort_values",
                "check_missing_values", "check_invalid_values",
                "check_invalidate_postcodes", "to_csv">>

\* the stages of a run over n tables, in the order the claim gives
ExpectedLog(n) ==
    [k \in 1..(5 * n + 7) |->
        IF k <= 5 * n
        THEN Logged(TableStages[((k - 1) % 5) + 1], ((k - 1) \div 5) + 1)
        ELSE Logged(SaveStages[k - 5 * n], 0)]

Downloading == pc \in {"get_page", "links", "download_return"}

\* C1: the stages run in the fixed order: the five per-table stages for table
\* 1, then for table 2, ..., then merge, dedup, sort, the three audits and
\* the save, each once; a run that ends normally with tables has run them all.
C1_StageOrder ==
    LET expected == ExpectedLog(Len(all_data))
    IN  /\ Len(log) <= Len(expected)
        /\ \A k \in 1..Len(log) : log[k] = expected[k]
        /\ (pc = "done" /\ all_data # <<>>) => log = expected
        /\ (Downloading \/ pc = "main") => log = <<>>

\* a run over two tables has saved
C1_Witness ==
    /\ pc = "done"
    /\ Len(all_data) = 2
    /\ Len(log) = 17
    /\ fs = to_csv(combined_df)

\* the hrefs of the catalogue whose lower-cased file name holds 2024 or 2025,
\* and those among them named .csv and .xlsx
WithYearToken == {Href1, Href2, Href5, Href6}
CsvNamed == {Href1}
WorkbookNamed == {Href2}

\* the links the loop gets to: those before the first <a> without an href
Considered ==
    IF page.status = "error" THEN {}
    ELSE {k \in 1..Len(page.links) : \A j \in 1..k : page.links[j] # NoHref}

\* link k was requested, answered, and its bytes are of the format its name announces
FetchedAndParsed(k) ==
    /\ k \in DOMAIN fetched
    /\ fetched[k].status = "ok"
    /\ \/ page.links[k] \in CsvNamed /\ fetched[k].format = "csv"
       \/ page.links[k] \in WorkbookNamed /\ fetched[k].format = "xlsx"

RECURSIVE TablesOf(_)
TablesOf(k) ==
    IF k = 0 THEN <<>>
    ELSE TablesOf(k - 1) \o
         (IF k \in Considered /\ FetchedAndParsed(k)
          THEN <<IF page.links[k] \in CsvNamed THEN read_csv(fetched[k].table)
                 ELSE read_excel(fetched[k].table)>>
          ELSE <<>>)

\* C2: when download_fuel_data returns, every link with a year token that the
\* loop got to was requested, whatever happened to the links before it, no
\* other link was, and the list returned holds the tables of the links that
\* were fetched and parsed, in link order.
C2_FailedFileIsSkipped ==
    pc = "main" =>
        /\ DOMAIN fetched = {k \in Considered : page.links[k] \in WithYearToken}
        /\ all_data = TablesOf(Len(page.links))

\* a file failed and a later one was loaded
C2_Witness ==
    /\ pc = "main"
    /\ \E j, k \in DOMAIN fetched :
          /\ j < k
          /\ ~FetchedAndParsed(j)
          /\ FetchedAndParsed(k)
    /\ Len(all_data) = 1

\* C3: a run whose download returned no table ends with the report that no
\* data was collected, having run no stage and left the output path as it was;
\* a failed page fetch returns no table.
C3_NoTablesNoOutput ==
    /\ (~Downloading /\ page.status = "error") => all_data = <<>>
    /\ (~Downloading /\ all_data = <<>>) =>
          /\ pc \in {"main", "done"}
          /\ log = <<>>
          /\ fs = fs0
          /\ combined_df = Null
          /\ pc = "done" => console = "No data was collected."

\* files were requested, none gave a table, and the earlier output is still there
C3_Witness ==
    /\ pc = "done"
    /\ all_data = <<>>
    /\ DOMAIN fetched # {}
    /\ console = "No data was collected."
    /\ fs = OldFile

Saved == pc = "done" /\ all_data # <<>>

\* C5: the table handed to to_csv has no two rows equal in every field, and as
\* many rows as the processed tables hold distinct rows.
C5_SavedTableDeduplicated ==
    Saved =>
        /\ NoTwoEqual(combined_df.rows)
        /\ Len(combined_df.rows) = Cardinality(Range(ConcatRows(all_data, 1)))

DateOf(df, r) == df.rows[r].PriceUpdatedDate

\* the saved rows are the merged, deduplicated rows taken in the order `indexer`
SavedInIndexerOrder ==
    /\ indexer \in Orders(Len(pre_sort.rows))
    /\ Len(combined_df.rows) = Len(pre_sort.rows)
    /\ \A r \in 1..Len(indexer) : DateOf(combined_df, r) = DateOf(pre_sort, indexer[r])

AuditedPostcode(c) ==
    IF IsFourAsciiDigits(StrOf(c)) THEN IntV(IntOfDigits(StrOf(c))) ELSE c

\* C9: once the audits are over the save is next, and the table has the rows
\* it had before them, in the same order, every cell as it was but for valid
\* Postcode cells, which are integers.
C9_AuditsChangeOnlyPostcodes ==
    (pre_audit # Null /\ pc \in {"to_csv", "done"}) =>
        /\ combined_df.cols = pre_audit.cols
        /\ Len(combined_df.rows) = Len(pre_audit.rows)
        /\ \A r \in 1..Len(pre_audit.rows) :
              combined_df.rows[r] =
                  [pre_audit.rows[r] EXCEPT !.Postcode = AuditedPostcode(@)]

=============================================================================
